---- MODULE Spec2Model ----
(***************************************************************************)
(* The work queue of spx-options-downloader: the available_dates table of  *)
(* src/database.py (ThetaDatabase) and the worker processes of             *)
(* src/download_greeks.py (GreeksDownloader.run) that claim, download,     *)
(* compress and finalize its rows.                                         *)
(*                                                                         *)
(* Every worker is one operating-system process with its own connection.   *)
(* One action is one committed SQL transaction or one file-system call of  *)
(* a worker; the processes interleave freely and nothing bounds how long a *)
(* process takes between two of its steps.  The clock counts minutes and   *)
(* advances in ticks longer than the staleness threshold.                  *)
(***************************************************************************)
EXTENDS Integers, FiniteSets, Sequences, TLC

\* ----------------------------------------------------------------- bounds
NumWorkers == 2     \* worker processes ever started
NumPending == 1     \* rows that are pending when the workers start
NumFinished == 1    \* rows that earlier runs have completed or failed for good
MaxTicks == 2       \* the clock stops after this many ticks

max_retries == 2    \* config.ini max_retries, the same for all workers

NumKeys == 4        \* keys (symbol, expiration, date) the enumeration may insert
MaxRows == 2        \* rows the table holds at most when it is called directly

\* ------------------------------------------------------ program constants
timeout_minutes == 30 \* reset_stuck_rows(timeout_minutes=30)

\* One tick of the clock: any stretch of time longer than the threshold
TickMinutes == 2 * timeout_minutes

Workers == 1..NumWorkers
Ids == 1..(NumPending + NumFinished)

\* SQL NULL / Python None, and a present value
NULL == <<>>
Some(x) == <<x>>

\* The key of row id: (expiration, trade date).  Keys are unique.
expiration(id) == (id + 1) \div 2
trade_date(id) == id % 2
\* Mutant: ORDER BY date DESC, expiration DESC
BeforeDateFirst(a, b) ==
    \/ trade_date(a) > trade_date(b)
    \/ trade_date(a) = trade_date(b) /\ expiration(a) > expiration(b)

\* ORDER BY expiration DESC, date DESC: a comes before b
Before(a, b) ==
    \/ expiration(a) > expiration(b)
    \/ expiration(a) = expiration(b) /\ trade_date(a) > trade_date(b)

\* file_path + ".zst" of the row's key (get_file_path is a function of the key)
compressed_path(id) == Some(id)

ResetMessage == "Reset from stuck in_progress state"

\* str(e) of the exception caught at the task boundary
ErrorMessage == "error"

VARIABLES
    available_dates,   \* the table: id -> row
    clock,             \* CURRENT_TIMESTAMP
    csv,               \* id -> whether the uncompressed file exists
    zst,               \* id -> "none" | "partial" | "full": the compressed file
    pc,                \* worker -> position in run()
    row,               \* worker -> the claimed row (NULL or Some(id))
    retry_count,       \* worker -> mark_failed's local retry_count
    interrupted,       \* worker -> self.interrupted
    conn,              \* worker -> "none" | "open" | "closed"
    exit_status,       \* worker -> the exit status of its process (NULL while it runs)
    ret,               \* what the latest claim_next_row, mark_failed or reset_stuck_rows returned
    claims,            \* id -> claim_next_row calls that returned the row since it last became pending
    fails,             \* id -> number of mark_failed calls that committed on the row
    swept,             \* id -> whether reset_stuck_rows ever reset the row
    exhausted,         \* id -> whether the row ever was failed with retry_count = max_retries
    claimed_by,        \* id -> the worker whose claim_next_row put the row in progress (0: not in progress)
    call               \* the latest call a program other than a worker made on the table (NULL: none)

vars == <<available_dates, clock, csv, zst, pc, row, retry_count,
          interrupted, conn, exit_status, ret, claims, fails, swept, exhausted,
          claimed_by, call>>

store == <<available_dates>>
files == <<csv, zst>>
ghosts == <<claims, fails, swept, exhausted, claimed_by>>

\* A row as INSERT leaves it (status DEFAULT 'pending', retry_count DEFAULT 0)
NewRow ==
    [status |-> "pending", retry_count |-> 0, started_at |-> NULL,
     completed_at |-> NULL, error_message |-> NULL,
     compressed_file_path |-> NULL]

\* Rows that an earlier run left completed, or failed for good
CompletedRow(id) ==
    [status |-> "completed", retry_count |-> 0, started_at |-> Some(0),
     completed_at |-> Some(0), error_message |-> NULL,
     compressed_file_path |-> compressed_path(id)]

FailedRow ==
    [status |-> "failed", retry_count |-> max_retries, started_at |-> Some(0),
     completed_at |-> Some(0), error_message |-> Some(ErrorMessage),
     compressed_file_path |-> NULL]

\* The tables the workers may find: rows 1..NumPending as INSERT left them, the
\* others finished by earlier runs
InitialTables ==
    {t \in [Ids -> {NewRow, FailedRow} \cup {CompletedRow(id) : id \in Ids}] :
        \A id \in Ids :
            /\ id <= NumPending => t[id] = NewRow
            /\ id > NumPending => t[id] \in {FailedRow, CompletedRow(id)}}

Init ==
    /\ available_dates \in InitialTables
    /\ clock = 0
    /\ csv = [id \in Ids |-> FALSE]
    /\ zst = [id \in Ids |->
                IF available_dates[id].status = "completed" THEN "full" ELSE "none"]
    /\ pc = [w \in Workers |-> "start"]
    /\ row = [w \in Workers |-> NULL]
    /\ retry_count = [w \in Workers |-> 0]
    /\ interrupted = [w \in Workers |-> FALSE]
    /\ conn = [w \in Workers |-> "none"]
    /\ exit_status = [w \in Workers |-> NULL]
    /\ ret = NULL
    /\ claims = [id \in Ids |-> 0]
    /\ fails = [id \in Ids |-> available_dates[id].retry_count]
    /\ swept = [id \in Ids |-> FALSE]
    /\ exhausted = [id \in Ids |-> available_dates[id].status = "failed"]
    /\ claimed_by = [id \in Ids |-> 0]
    /\ call = NULL

\* ------------------------------------------------------------ Task Store

\* Mutant: the WHERE clause accepts only rows that never failed
EligibleFresh(t, maxRetries) ==
    {id \in DOMAIN t : t[id].status = "pending" /\ t[id].retry_count < 1}

\* Mutant: the WHERE clause also accepts rows that are in progress
EligibleInProgress(t, maxRetries) ==
    {id \in DOMAIN t : t[id].status \in {"pending", "in_progress"}
                        /\ t[id].retry_count < maxRetries}

\* WHERE status = 'pending' AND retry_count < ?
Eligible(t, maxRetries) ==
    {id \in DOMAIN t : t[id].status = "pending" /\ t[id].retry_count < maxRetries}

\* ORDER BY expiration DESC, date DESC LIMIT 1
NextRow(t, maxRetries) ==
    CHOOSE id \in Eligible(t, maxRetries) :
        \A other \in Eligible(t, maxRetries) \ {id} : Before(id, other)

\* Mutant: the claim does not write the status
ClaimUpdateNoStatus(t, id, now) == [t EXCEPT ![id].started_at = Some(now)]

\* Mutant: the claim does not write started_at
ClaimUpdateNoStart(t, id, now) == [t EXCEPT ![id].status = "in_progress"]

\* UPDATE ... SET status = 'in_progress', started_at = CURRENT_TIMESTAMP WHERE id = ?
ClaimUpdate(t, id, now) ==
    [t EXCEPT ![id].status = "in_progress", ![id].started_at = Some(now)]

\* Mutant: completed_at is not stamped
CompleteUpdateNoStamp(t, id, now) ==
    [t EXCEPT ![id].status = "completed", ![id].error_message = NULL]

\* Mutant: the error message of an earlier attempt is kept
CompleteUpdateKeepsMessage(t, id, now) ==
    [t EXCEPT ![id].status = "completed", ![id].completed_at = Some(now)]

\* UPDATE ... SET status = 'completed', completed_at = CURRENT_TIMESTAMP, error_message = NULL
CompleteUpdate(t, id, now) ==
    [t EXCEPT ![id].status = "completed", ![id].completed_at = Some(now),
              ![id].error_message = NULL]

\* Mutant: > for >=
NewStatusLate(new_retry_count, maxRetries) ==
    IF new_retry_count > maxRetries THEN "failed" ELSE "pending"

\* new_status = 'failed' if new_retry_count >= max_retries else 'pending'
NewStatus(new_retry_count, maxRetries) ==
    IF new_retry_count >= maxRetries THEN "failed" ELSE "pending"

\* Mutant: completed_at is stamped whatever the new status is
FailUpdateStamped(t, id, read, msg, maxRetries, now) ==
    [t EXCEPT ![id].status = NewStatus(read + 1, maxRetries),
              ![id].retry_count = read + 1,
              ![id].error_message = Some(msg),
              ![id].completed_at = Some(now)]

\* mark_failed's UPDATE, from the retry_count its SELECT read earlier
FailUpdate(t, id, read, msg, maxRetries, now) ==
    [t EXCEPT ![id].status = NewStatus(read + 1, maxRetries),
              ![id].retry_count = read + 1,
              ![id].error_message = Some(msg),
              ![id].completed_at =
                  IF NewStatus(read + 1, maxRetries) = "failed" THEN Some(now) ELSE NULL]

\* Mutant: the comparison is turned around
IsStuckYoung(r, now, staleAfter) ==
    /\ r.status = "in_progress"
    /\ r.started_at # NULL
    /\ r.started_at[1] > now - staleAfter

\* WHERE status = 'in_progress' AND started_at < datetime('now', '-N minutes')
IsStuck(r, now, staleAfter) ==
    /\ r.status = "in_progress"
    /\ r.started_at # NULL
    /\ r.started_at[1] < now - staleAfter

StuckRows(t, now, staleAfter) == {id \in DOMAIN t : IsStuck(t[id], now, staleAfter)}

\* Mutant: the age of the claim is not looked at
ResetUpdateAll(t, now, staleAfter) ==
    [id \in DOMAIN t |->
        IF t[id].status = "in_progress"
        THEN [t[id] EXCEPT !.status = "pending", !.error_message = Some(ResetMessage)]
        ELSE t[id]]

\* UPDATE ... SET status = 'pending', error_message = '...' WHERE <stuck>
ResetUpdate(t, now, staleAfter) ==
    [id \in DOMAIN t |->
        IF IsStuck(t[id], now, staleAfter)
        THEN [t[id] EXCEPT !.status = "pending", !.error_message = Some(ResetMessage)]
        ELSE t[id]]

\* UPDATE ... SET compressed_file_path = ? WHERE id = ?
PathUpdate(t, id, path) == [t EXCEPT ![id].compressed_file_path = path]

\* ---------------------------------------------------------------- worker

\* Mutant: no try around the task, the exception reaches the outer except
RaiseEndsLoop(w) == pc' = [pc EXCEPT ![w] = "error"]

\* The exception leaves the inner try: except Exception as e (line 176)
Raise(w) == pc' = [pc EXCEPT ![w] = "fail_read"]

\* The locals of one loop iteration are dead once it ends: they are assigned
\* again before run() reads them
Forget(w) ==
    /\ row' = [row EXCEPT ![w] = NULL]
    /\ retry_count' = [retry_count EXCEPT ![w] = 0]

\* The exception leaves the while loop: the outer except Exception (line 211)
Escape(w) == pc' = [pc EXCEPT ![w] = "error"]

\* Mutant: the sweep runs again at every iteration of the loop
reset_stuck_rows_again(w) ==
    /\ pc[w] \in {"start", "loop"}
    /\ conn' = [conn EXCEPT ![w] = "open"]
    /\ available_dates' = ResetUpdate(available_dates, clock, timeout_minutes)
    /\ ret' = Some(Cardinality(StuckRows(available_dates, clock, timeout_minutes)))
    /\ claims' = [id \in Ids |->
          IF id \in StuckRows(available_dates, clock, timeout_minutes)
          THEN 0 ELSE claims[id]]
    /\ swept' = [id \in Ids |->
          swept[id] \/ id \in StuckRows(available_dates, clock, timeout_minutes)]
    /\ claimed_by' = [id \in Ids |->
          IF id \in StuckRows(available_dates, clock, timeout_minutes)
          THEN 0 ELSE claimed_by[id]]
    /\ pc' = [pc EXCEPT ![w] = "loop"]
    /\ UNCHANGED <<clock, files, row, retry_count, interrupted, exit_status, fails,
                   exhausted, call>>

\* An exception that nothing catches leaves run() and main(): the interpreter
\* prints the traceback and the process ends with status 1
Uncaught(w) ==
    /\ pc' = [pc EXCEPT ![w] = "aborted"]
    /\ exit_status' = [exit_status EXCEPT ![w] = Some(1)]

\* run(), lines 91-119: connect, reset_stuck_rows(timeout_minutes=30), the
\* initial get_download_stats and signal.signal, all outside any try
reset_stuck_rows(w) ==
    /\ pc[w] = "start"
    /\ conn' = [conn EXCEPT ![w] = "open"]
    /\ \/ \* the sweep commits, then the statistics are read or their read raises
          /\ available_dates' = ResetUpdate(available_dates, clock, timeout_minutes)
          /\ ret' = Some(Cardinality(StuckRows(available_dates, clock, timeout_minutes)))
          /\ claims' = [id \in Ids |->
                IF id \in StuckRows(available_dates, clock, timeout_minutes)
                THEN 0 ELSE claims[id]]
          /\ swept' = [id \in Ids |->
                swept[id] \/ id \in StuckRows(available_dates, clock, timeout_minutes)]
          /\ claimed_by' = [id \in Ids |->
                IF id \in StuckRows(available_dates, clock, timeout_minutes)
                THEN 0 ELSE claimed_by[id]]
          /\ \/ pc' = [pc EXCEPT ![w] = "loop"] /\ UNCHANGED exit_status
             \/ Uncaught(w)
          /\ UNCHANGED <<fails, exhausted>>
       \/ \* sqlite3.OperationalError (database is locked) in the sweep: nothing catches it
          /\ Uncaught(w)
          /\ UNCHANGED <<store, ret, ghosts>>
    /\ UNCHANGED <<clock, files, row, retry_count, interrupted, call>>

\* run(), line 124: while not self.interrupted, seen set
LoopExit(w) ==
    /\ pc[w] = "loop"
    /\ interrupted[w]
    /\ pc' = [pc EXCEPT ![w] = "summary"]
    /\ UNCHANGED <<store, clock, files, row, retry_count, interrupted, conn, exit_status, call, ret, ghosts>>

\* Mutant: the except branch commits what the transaction did before it raises
claim_next_row_commits(w) ==
    /\ pc[w] = "loop"
    /\ ~interrupted[w]
    /\ \/ /\ Eligible(available_dates, max_retries) # {}
          /\ LET id == NextRow(available_dates, max_retries) IN
                /\ available_dates' = ClaimUpdate(available_dates, id, clock)
                /\ \/ /\ row' = [row EXCEPT ![w] = Some(id)]
                      /\ ret' = Some(id)
                      /\ claims' = [claims EXCEPT ![id] = @ + 1]
                      /\ claimed_by' = [claimed_by EXCEPT ![id] = w]
                      /\ pc' = [pc EXCEPT ![w] = "fetch"]
                   \/ /\ Escape(w)
                      /\ UNCHANGED <<row, ret, claims, claimed_by>>
          /\ UNCHANGED <<fails, swept, exhausted>>
       \/ /\ Eligible(available_dates, max_retries) = {}
          /\ row' = [row EXCEPT ![w] = NULL]
          /\ ret' = NULL
          /\ pc' = [pc EXCEPT ![w] = "summary"]
          /\ UNCHANGED <<store, ghosts>>
    /\ UNCHANGED <<clock, files, retry_count, interrupted, conn, exit_status, call>>

\* claim_next_row: BEGIN IMMEDIATE .. SELECT .. UPDATE .. COMMIT, one transaction
claim_next_row(w) ==
    /\ pc[w] = "loop"
    /\ ~interrupted[w]
    /\ \/ /\ Eligible(available_dates, max_retries) # {}
          /\ LET id == NextRow(available_dates, max_retries) IN
                /\ available_dates' = ClaimUpdate(available_dates, id, clock)
                /\ row' = [row EXCEPT ![w] = Some(id)]
                /\ ret' = Some(id)
                /\ claims' = [claims EXCEPT ![id] = @ + 1]
                /\ claimed_by' = [claimed_by EXCEPT ![id] = w]
          /\ pc' = [pc EXCEPT ![w] = "fetch"]
          /\ UNCHANGED <<fails, swept, exhausted>>
       \/ \* if not row: rollback, return None; the loop breaks
          /\ Eligible(available_dates, max_retries) = {}
          /\ row' = [row EXCEPT ![w] = NULL]
          /\ ret' = NULL
          /\ pc' = [pc EXCEPT ![w] = "summary"]
          /\ UNCHANGED <<store, ghosts>>
       \/ \* the busy timeout expires: rollback, raise
          /\ Escape(w)
          /\ UNCHANGED <<store, row, ret, ghosts>>
    /\ UNCHANGED <<clock, files, retry_count, interrupted, conn, exit_status, call>>

\* run(), lines 140-150: get_greeks_history, get_file_path, open(file_path, 'w'),
\* write, getsize
Fetch(w) ==
    /\ pc[w] = "fetch"
    /\ \/ /\ csv' = [csv EXCEPT ![row[w][1]] = TRUE]
          /\ pc' = [pc EXCEPT ![w] = "compress"]
       \/ \* the request, makedirs or open fails: no file is touched
          /\ Raise(w)
          /\ UNCHANGED csv
       \/ \* write fails after open created the file
          /\ Raise(w)
          /\ csv' = [csv EXCEPT ![row[w][1]] = TRUE]
    /\ UNCHANGED <<store, clock, zst, row, retry_count, interrupted, conn, exit_status, call, ret, ghosts>>

\* run(), lines 153-163: open both files, copy_stream, getsize
Compress(w) ==
    /\ pc[w] = "compress"
    /\ \/ /\ csv[row[w][1]]
          /\ zst' = [zst EXCEPT ![row[w][1]] = "full"]
          /\ pc' = [pc EXCEPT ![w] = "remove"]
       \/ \* an open fails (the input is gone, or the output cannot be created)
          /\ Raise(w)
          /\ UNCHANGED zst
       \/ \* copy_stream fails after open(compressed_path, 'wb') truncated the output
          /\ csv[row[w][1]]
          /\ Raise(w)
          /\ zst' = [zst EXCEPT ![row[w][1]] = "partial"]
    /\ UNCHANGED <<store, clock, csv, row, retry_count, interrupted, conn, exit_status, call, ret, ghosts>>

\* run(), line 166: os.remove(file_path)
RemoveCsv(w) ==
    /\ pc[w] = "remove"
    /\ \/ /\ csv[row[w][1]]
          /\ csv' = [csv EXCEPT ![row[w][1]] = FALSE]
          /\ pc' = [pc EXCEPT ![w] = "setpath"]
       \/ /\ Raise(w)
          /\ UNCHANGED csv
    /\ UNCHANGED <<store, clock, zst, row, retry_count, interrupted, conn, exit_status, call, ret, ghosts>>

\* run(), line 170: update_compressed_file_path, its own commit
update_compressed_file_path(w) ==
    /\ pc[w] = "setpath"
    /\ \/ /\ available_dates' =
                PathUpdate(available_dates, row[w][1], compressed_path(row[w][1]))
          /\ pc' = [pc EXCEPT ![w] = "complete"]
       \/ /\ Raise(w)
          /\ UNCHANGED store
    /\ UNCHANGED <<clock, files, row, retry_count, interrupted, conn, exit_status, call, ret, ghosts>>

\* run(), line 173: mark_completed, its own commit
mark_completed(w) ==
    /\ pc[w] = "complete"
    /\ \/ /\ available_dates' = CompleteUpdate(available_dates, row[w][1], clock)
          /\ claimed_by' = [claimed_by EXCEPT ![row[w][1]] = 0]
          /\ pc' = [pc EXCEPT ![w] = "loop"]
          /\ row' = [row EXCEPT ![w] = NULL]
       \/ /\ Raise(w)
          /\ UNCHANGED <<store, row, claimed_by>>
    /\ UNCHANGED <<clock, files, retry_count, interrupted, conn, exit_status, call, ret,
                   claims, fails, swept, exhausted>>

\* mark_failed, lines 245-254: SELECT retry_count, outside any transaction
mark_failed_select(w) ==
    /\ pc[w] = "fail_read"
    /\ \/ /\ retry_count' = [retry_count EXCEPT ![w] = available_dates[row[w][1]].retry_count]
          /\ pc' = [pc EXCEPT ![w] = "fail_write"]
          /\ UNCHANGED row
       \/ /\ Escape(w)
          /\ Forget(w)
    /\ UNCHANGED <<store, clock, files, interrupted, conn, exit_status, call, ret, ghosts>>

\* mark_failed, lines 255-267: UPDATE from the value read, commit, return new_status
mark_failed_update(w) ==
    /\ pc[w] = "fail_write"
    /\ \/ LET id == row[w][1]
              new == FailUpdate(available_dates, id, retry_count[w], ErrorMessage,
                                max_retries, clock)
          IN  /\ available_dates' = new
              /\ ret' = Some(new[id].status)
              /\ claims' = [claims EXCEPT ![id] =
                                IF new[id].status = "pending" THEN 0 ELSE @]
              /\ fails' = [fails EXCEPT ![id] = @ + 1]
              /\ exhausted' = [exhausted EXCEPT ![id] =
                                @ \/ (new[id].status = "failed"
                                      /\ new[id].retry_count = max_retries)]
              /\ claimed_by' = [claimed_by EXCEPT ![id] = 0]
              /\ pc' = [pc EXCEPT ![w] = "loop"]
              /\ UNCHANGED swept
       \/ /\ Escape(w)
          /\ UNCHANGED <<store, ret, ghosts>>
    /\ Forget(w)
    /\ UNCHANGED <<clock, files, interrupted, conn, exit_status, call>>

\* run(), lines 190-218: the summary (or the outer except), then finally:
\* db.close(); run() returns to main(), which returns: the process ends with
\* status 0
Finish(w) ==
    /\ pc[w] \in {"summary", "error"}
    /\ pc' = [pc EXCEPT ![w] = "done"]
    /\ conn' = [conn EXCEPT ![w] = "closed"]
    /\ exit_status' = [exit_status EXCEPT ![w] = Some(0)]
    /\ UNCHANGED <<store, clock, files, row, retry_count, interrupted, ret, ghosts, call>>

InLoop == {"loop", "fetch", "compress", "remove", "setpath", "complete",
           "fail_read", "fail_write"}

\* Mutant: the signal ends the loop where the worker stands
signal_handler_abort(w) ==
    /\ pc[w] \in InLoop
    /\ ~interrupted[w]
    /\ interrupted' = [interrupted EXCEPT ![w] = TRUE]
    /\ pc' = [pc EXCEPT ![w] = "summary"]
    /\ UNCHANGED <<store, clock, files, row, retry_count, conn, exit_status, call, ret, ghosts>>

\* signal_handler: SIGINT once the handler is installed (line 119)
signal_handler(w) ==
    /\ pc[w] \in InLoop
    /\ ~interrupted[w]
    /\ interrupted' = [interrupted EXCEPT ![w] = TRUE]
    /\ UNCHANGED <<store, clock, files, pc, row, retry_count, conn, exit_status, call, ret, ghosts>>

\* The process dies (kill -9, power loss): nothing of run() runs any more
Crash(w) ==
    /\ pc[w] \in InLoop
    /\ pc' = [pc EXCEPT ![w] = "crashed"]
    /\ Forget(w)
    /\ interrupted' = [interrupted EXCEPT ![w] = FALSE]
    /\ UNCHANGED <<store, clock, files, conn, exit_status, call, ret, ghosts>>

\* Time passes
Tick ==
    /\ clock < MaxTicks * TickMinutes
    /\ clock' = clock + TickMinutes
    /\ UNCHANGED <<store, files, pc, row, retry_count, interrupted, conn, exit_status, call, ret, ghosts>>

Next ==
    \/ Tick
    \/ \E w \in Workers : reset_stuck_rows(w)
    \/ \E w \in Workers : LoopExit(w)
    \/ \E w \in Workers : claim_next_row(w)
    \/ \E w \in Workers : Fetch(w)
    \/ \E w \in Workers : Compress(w)
    \/ \E w \in Workers : RemoveCsv(w)
    \/ \E w \in Workers : update_compressed_file_path(w)
    \/ \E w \in Workers : mark_completed(w)
    \/ \E w \in Workers : mark_failed_select(w)
    \/ \E w \in Workers : mark_failed_update(w)
    \/ \E w \in Workers : Finish(w)
    \/ \E w \in Workers : signal_handler(w)
    \/ \E w \in Workers : Crash(w)

Spec == Init /\ [][Next]_vars

\* ------------------------------------------------------------ Fair runs
\* A run to exhaustion: no worker is killed and nobody presses Ctrl+C. Every
\* worker is a process of its own that the operating system keeps scheduling,
\* and each of its steps ends: the request has timeout=30 (api_client.py line
\* 183), a store call waits at most the busy timeout of 30 s (line 96), file
\* operations return. So a worker that can take a step eventually takes one.
Step(w) ==
    \/ reset_stuck_rows(w)
    \/ claim_next_row(w)
    \/ Fetch(w)
    \/ Compress(w)
    \/ RemoveCsv(w)
    \/ update_compressed_file_path(w)
    \/ mark_completed(w)
    \/ mark_failed_select(w)
    \/ mark_failed_update(w)
    \/ Finish(w)

FairNext ==
    \/ Tick
    \/ \E w \in Workers : reset_stuck_rows(w)
    \/ \E w \in Workers : claim_next_row(w)
    \/ \E w \in Workers : Fetch(w)
    \/ \E w \in Workers : Compress(w)
    \/ \E w \in Workers : RemoveCsv(w)
    \/ \E w \in Workers : update_compressed_file_path(w)
    \/ \E w \in Workers : mark_completed(w)
    \/ \E w \in Workers : mark_failed_select(w)
    \/ \E w \in Workers : mark_failed_update(w)
    \/ \E w \in Workers : Finish(w)

FairSpec == Init /\ [][FairNext]_vars /\ \A w \in Workers : WF_vars(Step(w))

\* ------------------------------------------- the Task Store called directly

\* The keys download_dates.py may insert; the id of a row stands for its key
Keys == 1..NumKeys

\* Everything that belongs to the workers, none of which is running
workers == <<csv, zst, pc, row, retry_count, interrupted, conn, exit_status,
             claims, fails, swept, exhausted, claimed_by>>

\* Mutant: INSERT OR REPLACE
insert_or_replace(t, k) ==
    [x \in DOMAIN t \cup {k} |-> IF x = k THEN NewRow ELSE t[x]]

\* INSERT OR IGNORE INTO available_dates (symbol, expiration, date):
\* UNIQUE(symbol, expiration, date) makes it a no-op on a key that exists
insert_date(t, k) ==
    IF k \in DOMAIN t
    THEN t
    ELSE [x \in DOMAIN t \cup {k} |-> IF x = k THEN NewRow ELSE t[x]]

\* Mutant: the total is the number of groups
get_download_stats_groups(t) ==
    LET present == {t[id].status : id \in DOMAIN t}
    IN  [s \in present \cup {"total"} |->
            IF s = "total" THEN Cardinality(present)
            ELSE Cardinality({id \in DOMAIN t : t[id].status = s})]

\* SELECT status, COUNT(*) .. GROUP BY status into a dict, then
\* stats['total'] = SELECT COUNT(*): a status no row has gets no entry
get_download_stats(t) ==
    LET present == {t[id].status : id \in DOMAIN t}
    IN  [s \in present \cup {"total"} |->
            IF s = "total" THEN Cardinality(DOMAIN t)
            ELSE Cardinality({id \in DOMAIN t : t[id].status = s})]

\* insert_date(symbol, expiration, date), as download_dates.py calls it
InsertDate(k) ==
    /\ k \in DOMAIN available_dates \/ Cardinality(DOMAIN available_dates) < MaxRows
    /\ \/ /\ available_dates' = insert_date(available_dates, k)
          /\ \/ k \notin DOMAIN available_dates /\ ret' = Some(k)
             \/ \* lastrowid after an ignored INSERT: an earlier row id of the connection, or 0
                /\ k \in DOMAIN available_dates
                /\ ret' \in {Some(r) : r \in DOMAIN available_dates \cup {0}}
       \/ \* except sqlite3.Error: print, return None
          /\ ret' = NULL
          /\ UNCHANGED available_dates
    /\ call' = <<"insert_date", k>>
    /\ UNCHANGED <<clock, workers>>

\* claim_next_row(max_retries) that returns (a raise leaves no result)
ClaimNextRow ==
    /\ \/ /\ Eligible(available_dates, max_retries) # {}
          /\ LET id == NextRow(available_dates, max_retries) IN
                /\ available_dates' = ClaimUpdate(available_dates, id, clock)
                /\ ret' = Some(id)
       \/ /\ Eligible(available_dates, max_retries) = {}
          /\ ret' = NULL
          /\ UNCHANGED available_dates
    /\ call' = <<"claim_next_row">>
    /\ UNCHANGED <<clock, workers>>

\* mark_completed(row_id) on a row that was claimed
MarkCompleted(id) ==
    /\ id \in DOMAIN available_dates
    /\ available_dates[id].status = "in_progress"
    /\ available_dates' = CompleteUpdate(available_dates, id, clock)
    /\ ret' = NULL
    /\ call' = <<"mark_completed", id>>
    /\ UNCHANGED <<clock, workers>>

\* mark_failed(row_id, error_message, max_retries) on a row that was claimed,
\* by a single caller: nothing comes between its SELECT and its UPDATE
MarkFailed(id) ==
    /\ id \in DOMAIN available_dates
    /\ available_dates[id].status = "in_progress"
    /\ LET new == FailUpdate(available_dates, id, available_dates[id].retry_count,
                             ErrorMessage, max_retries, clock)
       IN  /\ available_dates' = new
           /\ ret' = Some(new[id].status)
    /\ call' = <<"mark_failed", id>>
    /\ UNCHANGED <<clock, workers>>

\* reset_stuck_rows(timeout_minutes)
ResetStuckRows ==
    /\ available_dates' = ResetUpdate(available_dates, clock, timeout_minutes)
    /\ ret' = Some(Cardinality(StuckRows(available_dates, clock, timeout_minutes)))
    /\ call' = <<"reset_stuck_rows">>
    /\ UNCHANGED <<clock, workers>>

\* get_download_stats()
GetDownloadStats ==
    /\ ret' = get_download_stats(available_dates)
    /\ call' = <<"get_download_stats">>
    /\ UNCHANGED <<available_dates, clock, workers>>

\* An empty table, as create_tables and the migrations leave it
StoreInit ==
    /\ available_dates = [k \in {} |-> NewRow]
    /\ clock = 0
    /\ csv = [id \in Ids |-> FALSE]
    /\ zst = [id \in Ids |-> "none"]
    /\ pc = [w \in Workers |-> "start"]
    /\ row = [w \in Workers |-> NULL]
    /\ retry_count = [w \in Workers |-> 0]
    /\ interrupted = [w \in Workers |-> FALSE]
    /\ conn = [w \in Workers |-> "none"]
    /\ exit_status = [w \in Workers |-> NULL]
    /\ ret = NULL
    /\ claims = [id \in Ids |-> 0]
    /\ fails = [id \in Ids |-> 0]
    /\ swept = [id \in Ids |-> FALSE]
    /\ exhausted = [id \in Ids |-> FALSE]
    /\ claimed_by = [id \in Ids |-> 0]
    /\ call = NULL

StoreNext ==
    \/ Tick
    \/ \E k \in Keys : InsertDate(k)
    \/ ClaimNextRow
    \/ \E id \in Keys : MarkCompleted(id)
    \/ \E id \in Keys : MarkFailed(id)
    \/ ResetStuckRows
    \/ GetDownloadStats

StoreSpec == StoreInit /\ [][StoreNext]_vars

\* ------------------------------------------------------------ properties

\* Steps of the Task Store, told by the worker's position before and after
ClaimReturnsRow(w, id) == pc[w] = "loop" /\ pc'[w] = "fetch" /\ row'[w] = Some(id)
ClaimReturnsNone(w) == pc[w] = "loop" /\ ~interrupted[w] /\ pc'[w] = "summary"
FailStep(w, id) == pc[w] = "fail_write" /\ pc'[w] = "loop" /\ row[w] = Some(id)
CompleteStep(w, id) == pc[w] = "complete" /\ pc'[w] = "loop" /\ row[w] = Some(id)
SweepStep(w) == pc[w] = "start" /\ pc'[w] = "loop"

\* The rows a Claim(max_retries) may return
Claimable(t) == {id \in Ids : t[id].status = "pending" /\ t[id].retry_count < max_retries}

Working == {"fetch", "compress", "remove", "setpath", "complete", "fail_read", "fail_write"}

\* C1: when the store holds exactly one pending row with retry_count <
\* max_retries and several workers call Claim, the first call that returns gets
\* that row and leaves no claimable row, and a call that finds no claimable row
\* returns None: exactly one caller receives the row, the others None.
C1_MutualExclusion ==
    [][\A w \in Workers :
        /\ \A id \in Ids : ClaimReturnsRow(w, id) =>
              /\ id \in Claimable(available_dates)
              /\ Claimable(available_dates') = Claimable(available_dates) \ {id}
        /\ ClaimReturnsNone(w) =>
              /\ Claimable(available_dates) = {}
              /\ ret' = NULL
        /\ (pc[w] = "loop" /\ pc'[w] \in {"fetch", "summary"} /\ ~interrupted[w]
            /\ Cardinality(Claimable(available_dates)) = 1) =>
              /\ \E id \in Claimable(available_dates) : ClaimReturnsRow(w, id)
              /\ Claimable(available_dates') = {}]_vars

\* C1 witness: both workers called Claim while one row was claimable; one holds
\* it, the other was returned None
C1_Witness ==
    \E w1, w2 \in Workers : \E id \in Ids :
        /\ w1 # w2
        /\ pc[w1] = "fetch" /\ row[w1] = Some(id)
        /\ available_dates[id].status = "in_progress"
        /\ claims[id] = 1
        /\ pc[w2] = "summary" /\ ~interrupted[w2] /\ ret = NULL

\* C2: a row returned by one Claim is returned by no other Claim unless a Fail
\* or a RecoverStuck put it back to pending in between: since a row last became
\* pending, at most one Claim has returned it.
C2_AtMostOneClaimant == \A id \in Ids : claims[id] <= 1

\* C2 witness: two workers hold the same row, the second after a sweep put it
\* back, and still only one Claim returned it since
C2_Witness ==
    \E w1, w2 \in Workers : \E id \in Ids :
        /\ w1 # w2
        /\ pc[w1] \in Working /\ row[w1] = Some(id)
        /\ pc[w2] \in Working /\ row[w2] = Some(id)
        /\ swept[id]
        /\ claims[id] = 1

\* C3: Claim returns a row only if the row was pending with retry_count <
\* max_retries; afterwards the row is in_progress with started_at the claim
\* time, and nothing else in the table has changed.
C3_ClaimContract ==
    [][\A w \in Workers : \A id \in Ids : ClaimReturnsRow(w, id) =>
        /\ available_dates[id].status = "pending"
        /\ available_dates[id].retry_count < max_retries
        /\ available_dates'[id].status = "in_progress"
        /\ available_dates'[id].started_at = Some(clock)
        /\ \A other \in Ids \ {id} : available_dates'[other] = available_dates[other]
        /\ available_dates' = [available_dates EXCEPT
                                  ![id].status = "in_progress",
                                  ![id].started_at = Some(clock)]]_vars

\* C3 witness: a row claimed after the clock advanced, beside a finished row
C3_Witness ==
    \E w \in Workers : \E id \in Ids :
        /\ pc[w] = "fetch" /\ row[w] = Some(id)
        /\ clock > 0
        /\ available_dates[id].status = "in_progress"
        /\ available_dates[id].started_at = Some(clock)
        /\ \E other \in Ids \ {id} : available_dates[other].status \in {"completed", "failed"}

\* C4: for a row that started pending with retry_count 0 and is only claimed and
\* then failed (never swept), the k-th Fail leaves retry_count = k, status
\* pending while k < max_retries and status failed exactly when k = max_retries.
C4_RetryExhaustion ==
    [][\A w \in Workers : \A id \in 1..NumPending : (FailStep(w, id) /\ ~swept[id]) =>
        /\ fails'[id] = fails[id] + 1
        /\ available_dates'[id].retry_count = fails'[id]
        /\ fails'[id] <= max_retries
        /\ fails'[id] < max_retries => available_dates'[id].status = "pending"
        /\ fails'[id] = max_retries => available_dates'[id].status = "failed"
        /\ available_dates[id].status # "failed"]_vars

\* C4 witness: a row never swept that was failed max_retries times
C4_Witness ==
    \E id \in 1..NumPending :
        /\ ~swept[id]
        /\ fails[id] = max_retries
        /\ available_dates[id].status = "failed"
        /\ available_dates[id].retry_count = max_retries

\* C5: Fail raises the retry_count it found by exactly 1, stores the message,
\* stores failed with completed_at set when the new count is >= max_retries
\* and pending with completed_at null otherwise, changes nothing else, and
\* returns the status it stored.
C5_FailContract ==
    [][\A w \in Workers : \A id \in Ids : FailStep(w, id) =>
        LET old == available_dates[id]
            new == available_dates'[id]
            failed == retry_count[w] + 1 >= max_retries
        IN  /\ new.retry_count = retry_count[w] + 1
            /\ old.retry_count = retry_count[w] => new.retry_count = old.retry_count + 1
            /\ new.error_message = Some(ErrorMessage)
            /\ new.status = IF failed THEN "failed" ELSE "pending"
            /\ new.completed_at = IF failed THEN Some(clock) ELSE NULL
            /\ new.started_at = old.started_at
            /\ new.compressed_file_path = old.compressed_file_path
            /\ ret' = Some(new.status)
            /\ \A other \in Ids \ {id} : available_dates'[other] = available_dates[other]]_vars

\* C5 witness: both outcomes of Fail have been stored: a row failed for good
\* after it had been put back to pending once
C5_Witness ==
    \E id \in 1..NumPending :
        /\ available_dates[id].status = "failed"
        /\ available_dates[id].completed_at # NULL
        /\ fails[id] >= 2
        /\ ret = Some("failed")

\* C6 (as claimed): once a row has been failed max_retries times (status failed,
\* retry_count = max_retries), no later Claim returns it.
C6_NeverClaimedAgain ==
    [][\A w \in Workers : \A id \in Ids : ClaimReturnsRow(w, id) => ~exhausted[id]]_vars

\* C7: a sweep puts every row that is in_progress and was claimed more than
\* timeout_minutes ago back to pending with the reset message, returns their
\* number, and such a row with retry_count < max_retries is claimable: no Claim
\* returns None while it is pending.
C7_StuckRecovery ==
    [][\A w \in Workers :
        /\ SweepStep(w) =>
            LET stuck == {id \in Ids :
                            /\ available_dates[id].status = "in_progress"
                            /\ available_dates[id].started_at # NULL
                            /\ available_dates[id].started_at[1] + timeout_minutes < clock}
            IN  /\ \A id \in stuck :
                      /\ available_dates'[id].status = "pending"
                      /\ available_dates'[id].error_message = Some(ResetMessage)
                      /\ available_dates[id].retry_count < max_retries
                            => id \in Claimable(available_dates')
                /\ ret' = Some(Cardinality(stuck))
        /\ ClaimReturnsNone(w) =>
            ~ \E id \in Ids : /\ available_dates[id].status = "pending"
                              /\ available_dates[id].retry_count < max_retries]_vars

\* C7 witness: a worker died, a later sweep reset its row, and another worker
\* was returned the row by Claim
C7_Witness ==
    \E w1, w2 \in Workers : \E id \in Ids :
        /\ pc[w1] = "crashed"
        /\ swept[id]
        /\ pc[w2] = "fetch" /\ row[w2] = Some(id)
        /\ available_dates[id].status = "in_progress"
        /\ available_dates[id].error_message = Some(ResetMessage)

\* C8 (as claimed): Complete on a row that is already completed changes no
\* field of the row.
C8_CompleteIdempotent ==
    [][\A w \in Workers : \A id \in Ids :
        (CompleteStep(w, id) /\ available_dates[id].status = "completed") =>
            available_dates'[id] = available_dates[id]]_vars

\* C9 (as claimed): in every reachable state a row's compressed_file_path is
\* non-null if and only if its status is completed.
C9_PathIffCompleted ==
    \A id \in Ids :
        available_dates[id].compressed_file_path # NULL
            <=> available_dates[id].status = "completed"

\* C10 (as claimed): retry_count never decreases from one state to the next, and
\* it changes only in a Fail step, which raises it by exactly one.
C10_RetryCountMonotone ==
    [][\A id \in Ids :
        /\ available_dates'[id].retry_count >= available_dates[id].retry_count
        /\ available_dates'[id].retry_count # available_dates[id].retry_count =>
              /\ \E w \in Workers : FailStep(w, id)
              /\ available_dates'[id].retry_count = available_dates[id].retry_count + 1]_vars

\* C11 (as claimed): in every reachable state every row has
\* 0 <= retry_count <= max_retries, all workers running with the same
\* max_retries.
C11_RetryCountBounded ==
    \A id \in Ids :
        /\ 0 <= available_dates[id].retry_count
        /\ available_dates[id].retry_count <= max_retries

\* The stages of a task in which it is fetched and archived
Archiving == {"fetch", "compress", "remove"}

\* The stage that follows a stage that succeeded
NextStage(p) ==
    CASE p = "fetch" -> "compress"
      [] p = "compress" -> "remove"
      [] p = "remove" -> "setpath"
      [] p = "setpath" -> "complete"
      [] p = "complete" -> "loop"
      [] OTHER -> p

\* C12: when the fetch or the archive step of a claimed row fails, the worker
\* goes to the handler of the task boundary with the same row, the handler's
\* mark_failed writes that row (and no other) as pending or failed with the
\* message, and the worker is back at the head of its loop: no failure of a
\* fetch or archive step takes the worker out of the loop.
C12_TaskErrorsRecorded ==
    [][\A w \in Workers : \A id \in Ids :
        /\ (pc[w] \in Archiving /\ row[w] = Some(id)
            /\ pc'[w] \notin {pc[w], NextStage(pc[w]), "crashed"}) =>
              /\ pc'[w] = "fail_read"
              /\ row'[w] = Some(id)
              /\ available_dates' = available_dates
        /\ (pc[w] = "fail_read" /\ row[w] = Some(id) /\ pc'[w] = "fail_write") =>
              /\ row'[w] = Some(id)
              /\ retry_count'[w] = available_dates[id].retry_count
        /\ FailStep(w, id) =>
              /\ available_dates'[id].status \in {"pending", "failed"}
              /\ available_dates'[id].error_message = Some(ErrorMessage)
              /\ \A other \in Ids \ {id} : available_dates'[other] = available_dates[other]
              /\ pc'[w] = "loop"]_vars

\* C12 witness: a worker alone recorded the failure of its row and has claimed
\* the row again
C12_Witness ==
    \E w \in Workers : \E id \in Ids :
        /\ pc[w] = "fetch" /\ row[w] = Some(id)
        /\ fails[id] = 1
        /\ available_dates[id].retry_count = 1
        /\ available_dates[id].error_message = Some(ErrorMessage)
        /\ \A other \in Workers \ {w} : pc[other] = "start"

\* C13: an interrupt changes nothing but the flag; a worker whose flag is set
\* while it holds a row goes on through the stages of that row and comes back
\* to the head of the loop only by a Complete or a Fail of that row, which
\* leaves the row not in progress; at the head of the loop it claims nothing
\* more, and when it leaves the loop no row it claimed is in progress.
C13_InterruptFinishesTask ==
    [][\A w \in Workers :
        /\ (~interrupted[w] /\ interrupted'[w]) =>
              /\ pc'[w] = pc[w]
              /\ row'[w] = row[w]
              /\ UNCHANGED <<available_dates, csv, zst>>
        /\ (interrupted[w] /\ pc[w] \in Working) =>
              pc'[w] \in Working \cup {"loop", "error", "crashed"}
        /\ \A id \in Ids :
              (interrupted[w] /\ pc[w] \in Working /\ row[w] = Some(id)
               /\ pc'[w] = "loop") =>
                  /\ CompleteStep(w, id) \/ FailStep(w, id)
                  /\ available_dates'[id].status # "in_progress"
        /\ (interrupted[w] /\ pc[w] = "loop" /\ pc'[w] # "loop") =>
              pc'[w] \in {"summary", "crashed"}
        /\ (interrupted[w] /\ pc[w] = "loop" /\ pc'[w] = "summary") =>
              /\ row[w] = NULL
              /\ \A id \in Ids : ~ (/\ available_dates[id].status = "in_progress"
                                     /\ claimed_by[id] = w)]_vars

\* C13 witness: the interrupt came while the worker held a row (a worker whose
\* flag is set claims nothing), and the worker has gone on to finalize the row
C13_Witness ==
    \E w \in Workers : \E id \in Ids :
        /\ interrupted[w]
        /\ pc[w] = "complete" /\ row[w] = Some(id)
        /\ claimed_by[id] = w
        /\ available_dates[id].compressed_file_path = compressed_path(id)
        /\ available_dates[id].status = "in_progress"

\* C14 (as claimed): a Claim that cannot get the write lock within the busy
\* timeout counts as no row claimed this cycle: a Claim that returns neither a
\* row nor None leaves the worker at the head of its loop, to call Claim again.
C14_ContentionRetries ==
    [][\A w \in Workers :
        (pc[w] = "loop" /\ ~interrupted[w]
         /\ pc'[w] \notin {"fetch", "summary", "crashed"}) => pc'[w] = "loop"]_vars

\* C15 (as claimed): when the sweep at startup fails (it commits nothing and
\* returns nothing), the run is not aborted: the worker enters its loop.
C15_SweepFailureNonFatal ==
    [][\A w \in Workers :
        (pc[w] = "start" /\ pc'[w] # "start"
         /\ available_dates' = available_dates /\ ret' = ret) => pc'[w] = "loop"]_vars

\* C16 (as claimed): whenever a run has ended after the store was opened, by
\* whatever path, the connection has been closed.
C16_ClosedOnEveryExit ==
    \A w \in Workers :
        (exit_status[w] # NULL /\ conn[w] # "none") => conn[w] = "closed"

\* C17 (as claimed): when an error has escaped the loop, the store is closed
\* and the process ends with a status other than 0; the process ends with
\* status 0 only when Claim found the queue exhausted.
C17_ExitStatus ==
    [][\A w \in Workers :
        (exit_status[w] = NULL /\ exit_status'[w] # NULL) =>
            /\ pc[w] = "error" => (conn'[w] = "closed" /\ exit_status'[w] # Some(0))
            /\ exit_status'[w] = Some(0) => (pc[w] = "summary" /\ ~interrupted[w])]_vars

\* C18 (as claimed): if the compression of a row fails at any point, then
\* afterwards the uncompressed file exists and no file exists at the
\* compressed path.
C18_FailedCompressionLeavesCsvOnly ==
    [][\A w \in Workers : \A id \in Ids :
        (pc[w] = "compress" /\ row[w] = Some(id) /\ pc'[w] = "fail_read") =>
            /\ csv'[id]
            /\ zst'[id] = "none"]_vars

\* C19 (as claimed): the uncompressed file of a row is deleted only while the
\* complete compressed file exists, and after a successful archive step
\* exactly the compressed file exists.
C19_DeleteOnlyAfterCompression ==
    [][\A id \in Ids :
        /\ (csv[id] /\ ~csv'[id]) => (zst[id] = "full" /\ zst'[id] = "full")
        /\ \A w \in Workers :
              (pc[w] = "remove" /\ row[w] = Some(id) /\ pc'[w] = "setpath") =>
                  (~csv'[id] /\ zst'[id] = "full")]_vars

\* The stages in which a worker fetches, archives or finalizes its row
Processing == {"fetch", "compress", "remove", "setpath", "complete"}

\* C20 (as claimed): at most one worker at a time is fetching, archiving or
\* finalizing a given row, also when a worker starts and sweeps while others
\* are in the middle of a row.
C20_OneWorkerPerTask ==
    \A w1, w2 \in Workers :
        (w1 # w2 /\ pc[w1] \in Processing /\ pc[w2] \in Processing) => row[w1] # row[w2]

\* C21 (as claimed): the loop of a worker ends exactly when a Claim returns
\* None or when the flag is seen set at the head of the loop; a Claim that
\* returns a row never ends the loop, and a worker whose loop has ended claims
\* nothing.
C21_LoopEndsOnlyOnNoneOrInterrupt ==
    [][\A w \in Workers :
        /\ (pc[w] \in InLoop /\ pc'[w] \notin InLoop \cup {"crashed"}) =>
              /\ pc[w] = "loop"
              /\ pc'[w] = "summary"
              /\ interrupted[w] \/ (ret' = NULL /\ Claimable(available_dates) = {})
        /\ \A id \in Ids : ClaimReturnsRow(w, id) => pc'[w] \in InLoop
        /\ pc[w] \notin InLoop \cup {"start"} =>
              /\ pc'[w] \notin InLoop
              /\ row'[w] = NULL
              /\ \A id \in Ids : claimed_by'[id] = w => claimed_by[id] = w]_vars

\* C22: every run calls the sweep exactly once, as the step by which the
\* worker leaves its start, before it has claimed anything; a worker that has
\* left its start never comes back to it, and every step that resets a row from
\* in_progress to pending with the reset message is the first step of a worker.
C22_SweepOnceBeforeClaims ==
    [][\A w \in Workers :
        /\ pc[w] # "start" => pc'[w] # "start"
        /\ (pc[w] = "start" /\ pc'[w] # "start") =>
              /\ pc'[w] \in {"loop", "aborted"}
              /\ row[w] = NULL
              /\ \A id \in Ids : claimed_by[id] # w
        /\ (pc[w] = "loop" /\ pc'[w] = "fetch") => conn[w] = "open"
        /\ \A id \in Ids :
              (/\ available_dates[id].status = "in_progress"
               /\ available_dates'[id].status = "pending"
               /\ available_dates'[id].error_message = Some(ResetMessage)) =>
                  \E s \in Workers : pc[s] = "start" /\ pc'[s] \in {"loop", "aborted"}]_vars

\* C22 witness: a worker whose sweep reset a row has claimed that row
C22_Witness ==
    \E w \in Workers : \E id \in Ids :
        /\ pc[w] \in Processing /\ row[w] = Some(id)
        /\ claimed_by[id] = w
        /\ swept[id]
        /\ available_dates[id].error_message = Some(ResetMessage)
        /\ \A other \in Workers \ {w} : pc[other] # "start"

\* C24: a Claim that returns no row, because it found no eligible row (None)
\* or because it raised, leaves every field of every row as it was.
C24_ClaimWithoutRowChangesNothing ==
    [][\A w \in Workers :
        (pc[w] = "loop" /\ ~interrupted[w] /\ pc'[w] \in {"summary", "error"}) =>
            available_dates' = available_dates]_vars

\* C24 witness: a Claim raised while a row was claimable, and the row is still
\* as INSERT left it
C24_Witness ==
    \E w \in Workers : \E id \in Ids :
        /\ pc[w] = "error"
        /\ available_dates[id] = NewRow
        /\ claims[id] = 0
        /\ \A other \in Workers \ {w} : pc[other] = "start"

\* C27 (as claimed): completed and failed are terminal: no step changes the
\* status of a row that is completed or failed.
C27_TerminalStatuses ==
    [][\A id \in Ids :
        available_dates[id].status \in {"completed", "failed"} =>
            available_dates'[id].status = available_dates[id].status]_vars

\* C28 (as claimed): a row becomes completed only from in_progress and failed
\* only from in_progress: Complete and Fail leave the status of a row that is
\* pending, completed or failed as it was.
C28_OnlyFromInProgress ==
    [][\A id \in Ids :
        /\ (available_dates'[id].status \in {"completed", "failed"}
            /\ available_dates'[id].status # available_dates[id].status) =>
                available_dates[id].status = "in_progress"
        /\ \A w \in Workers :
              ((CompleteStep(w, id) \/ FailStep(w, id))
               /\ available_dates[id].status # "in_progress") =>
                  available_dates'[id].status = available_dates[id].status]_vars

\* C30: after fetch, write, compression and deletion succeeded, the worker
\* stores the compressed path in the row (and nothing else), then calls
\* Complete, after which the row is completed with that path, completed_at the
\* time of the call and no error message; Complete is called only after the
\* path was stored.
C30_SuccessPath ==
    [][\A w \in Workers : \A id \in Ids :
        /\ (pc[w] = "remove" /\ row[w] = Some(id) /\ pc'[w] # "remove") =>
              pc'[w] \in {"setpath", "fail_read", "crashed"}
        /\ (pc[w] = "setpath" /\ row[w] = Some(id) /\ pc'[w] = "complete") =>
              available_dates' = [available_dates EXCEPT
                                     ![id].compressed_file_path = compressed_path(id)]
        /\ (pc'[w] = "complete" /\ pc[w] # "complete") => pc[w] = "setpath"
        /\ CompleteStep(w, id) =>
              /\ available_dates'[id].status = "completed"
              /\ available_dates'[id].compressed_file_path = compressed_path(id)
              /\ available_dates'[id].error_message = NULL
              /\ available_dates'[id].completed_at = Some(clock)
              /\ \A other \in Ids \ {id} : available_dates'[other] = available_dates[other]]_vars

\* C30 witness: a row that failed once was claimed again and archived, and is
\* completed with its path and without a message
C30_Witness ==
    \E id \in 1..NumPending :
        /\ fails[id] >= 1
        /\ available_dates[id].status = "completed"
        /\ available_dates[id].compressed_file_path = compressed_path(id)
        /\ available_dates[id].error_message = NULL
        /\ zst[id] = "full" /\ ~csv[id]

Statuses == {"pending", "in_progress", "completed", "failed"}

\* C23: among the rows that are pending with retry_count < max_retries when
\* Claim is called, Claim returns the one with the greatest expiration and,
\* among those, the greatest trade date (and None when there is none).
C23_ClaimOrder ==
    [][(call' = <<"claim_next_row">> /\ clock' = clock) =>
        LET eligible == {id \in DOMAIN available_dates :
                            /\ available_dates[id].status = "pending"
                            /\ available_dates[id].retry_count < max_retries}
        IN  IF eligible = {}
            THEN ret' = NULL
            ELSE \E id \in eligible :
                    /\ ret' = Some(id)
                    /\ available_dates'[id].status = "in_progress"
                    /\ \A other \in eligible \ {id} :
                          \/ expiration(id) > expiration(other)
                          \/ /\ expiration(id) = expiration(other)
                             /\ trade_date(id) > trade_date(other)]_vars

\* C23 witness: Claim returned the row of the later expiration although the
\* other eligible row has the later trade date
C23_Witness ==
    /\ call = <<"claim_next_row">>
    /\ \E a, b \in DOMAIN available_dates :
          /\ ret = Some(a)
          /\ available_dates[a].status = "in_progress"
          /\ available_dates[a].started_at = Some(clock)
          /\ expiration(a) > expiration(b)
          /\ trade_date(a) < trade_date(b)
          /\ available_dates[b].status = "pending"
          /\ available_dates[b].retry_count < max_retries

\* C25: Stats returns for every status the number of rows that have it (no
\* entry, read as 0, for a status no row has) and a total equal to the number
\* of rows, which is the sum of the counts of the statuses.
C25_StatsCounts ==
    call = <<"get_download_stats">> =>
        LET Count(st) == Cardinality({id \in DOMAIN available_dates :
                                        available_dates[id].status = st})
            Got(st) == IF st \in DOMAIN ret THEN ret[st] ELSE 0
        IN  /\ \A st \in Statuses : Got(st) = Count(st)
            /\ DOMAIN ret \subseteq Statuses \cup {"total"}
            /\ ret["total"] = Cardinality(DOMAIN available_dates)
            /\ ret["total"] = Got("pending") + Got("in_progress")
                                + Got("completed") + Got("failed")

\* C25 witness: Stats was called on a table with rows of two statuses and
\* with two rows of one status
C25_Witness ==
    /\ call = <<"get_download_stats">>
    /\ Cardinality(DOMAIN available_dates) = MaxRows
    /\ \/ \E st \in Statuses : st \in DOMAIN ret /\ ret[st] = MaxRows
       \/ {"in_progress", "failed"} \subseteq DOMAIN ret

\* C26: an insert (that returns a row id) of a key the table does not hold adds
\* exactly one row, pending with retry_count 0 and every other field null, and
\* changes no other row; an insert of a key the table holds changes nothing.
C26_InsertOnce ==
    [][\A k \in Keys :
        (call' = <<"insert_date", k>> /\ clock' = clock /\ ret' # NULL) =>
            IF k \in DOMAIN available_dates
            THEN available_dates' = available_dates
            ELSE /\ DOMAIN available_dates' = DOMAIN available_dates \cup {k}
                 /\ available_dates'[k].status = "pending"
                 /\ available_dates'[k].retry_count = 0
                 /\ available_dates'[k] = NewRow
                 /\ \A other \in DOMAIN available_dates :
                       available_dates'[other] = available_dates[other]]_vars

\* C26 witness: a key was inserted again after its row had failed once and
\* been claimed again, beside another row
C26_Witness ==
    \E k \in Keys :
        /\ call = <<"insert_date", k>>
        /\ ret # NULL
        /\ Cardinality(DOMAIN available_dates) = MaxRows
        /\ k \in DOMAIN available_dates
        /\ available_dates[k].status = "in_progress"
        /\ available_dates[k].retry_count = 1
        /\ available_dates[k].error_message = Some(ErrorMessage)

\* C29: RecoverStuck changes only status and error_message of the rows that
\* are in_progress with started_at older than the threshold, leaves every
\* other row and every retry_count as they were, and returns the number of rows
\* it moved to pending.
C29_RecoverFrame ==
    [][(call' = <<"reset_stuck_rows">> /\ clock' = clock) =>
        LET stuck == {id \in DOMAIN available_dates :
                        /\ available_dates[id].status = "in_progress"
                        /\ available_dates[id].started_at # NULL
                        /\ available_dates[id].started_at[1] + timeout_minutes < clock}
        IN  /\ DOMAIN available_dates' = DOMAIN available_dates
            /\ \A id \in DOMAIN available_dates :
                  /\ available_dates'[id].retry_count = available_dates[id].retry_count
                  /\ id \in stuck =>
                        available_dates'[id] =
                            [available_dates[id] EXCEPT !.status = "pending",
                                                        !.error_message = Some(ResetMessage)]
                  /\ id \notin stuck => available_dates'[id] = available_dates[id]
            /\ ret' = Some(Cardinality(stuck))]_vars

\* C29 witness: a sweep reset one row, claimed long ago after a failure, and
\* left alone a row claimed just now
C29_Witness ==
    /\ call = <<"reset_stuck_rows">>
    /\ ret = Some(1)
    /\ \E a, b \in DOMAIN available_dates :
          /\ available_dates[a].status = "pending"
          /\ available_dates[a].error_message = Some(ResetMessage)
          /\ available_dates[a].retry_count = 1
          /\ available_dates[b].status = "in_progress"
          /\ available_dates[b].started_at = Some(clock)


\* C31: each Claim by a worker that returns a row is followed, before that
\* worker's next Claim and before the worker leaves its loop, by exactly one
\* finalizing call for that row by that worker: a worker that holds a row stops
\* working on it only by a Complete or a Fail that takes effect.
C31_ExactlyOneFinalizer ==
    [][\A w \in Workers : \A id \in Ids :
        (pc[w] \in Working /\ row[w] = Some(id)
         /\ pc'[w] \notin Working /\ pc'[w] # "crashed") =>
            /\ CompleteStep(w, id) \/ FailStep(w, id)
            /\ pc'[w] = "loop"]_vars

\* C32: in every reachable state a row's completed_at is non-null if and only
\* if its status is completed or failed.
C32_CompletedAtIffFinal ==
    \A id \in Ids :
        (available_dates[id].completed_at # NULL)
            <=> (available_dates[id].status \in {"completed", "failed"})

\* C32 witness: a row that had failed for good is pending again, written by a
\* Fail that had read an older retry_count, and its completed_at is null again
C32_Witness ==
    \E id \in 1..NumPending :
        /\ exhausted[id]
        /\ swept[id]
        /\ available_dates[id].status = "pending"
        /\ available_dates[id].completed_at = NULL

\* C33: in every reachable state a row with status in_progress has a non-null
\* started_at, not in the future, so once timeout_minutes have passed since the
\* claim the row satisfies the staleness test of reset_stuck_rows.
C33_InProgressHasStart ==
    \A id \in Ids : available_dates[id].status = "in_progress" =>
        /\ available_dates[id].started_at # NULL
        /\ available_dates[id].started_at[1] <= clock
        /\ available_dates[id].started_at[1] + timeout_minutes < clock =>
              id \in StuckRows(available_dates, clock, timeout_minutes)

\* C33 witness: the worker that claimed a row has crashed, time has passed and
\* the row satisfies the staleness test
C33_Witness ==
    \E id \in Ids :
        /\ claimed_by[id] # 0
        /\ pc[claimed_by[id]] = "crashed"
        /\ available_dates[id].status = "in_progress"
        /\ available_dates[id].started_at # NULL
        /\ available_dates[id].started_at[1] + timeout_minutes < clock
        /\ id \in StuckRows(available_dates, clock, timeout_minutes)

\* C34: when every worker has left its loop because its Claim returned None,
\* none crashed and none was interrupted, every row is completed or failed: none
\* is in_progress and none is pending with retry_count < max_retries.
C34_NoWorkLeftBehind ==
    (\A w \in Workers : pc[w] = "summary" /\ ~interrupted[w]) =>
        \A id \in Ids :
            /\ available_dates[id].status \in {"completed", "failed"}
            /\ available_dates[id].status # "in_progress"
            /\ ~(available_dates[id].status = "pending"
                 /\ available_dates[id].retry_count < max_retries)

\* C34 witness: every worker was returned None after a row was swept from one
\* worker, claimed by another and failed at least once
C34_Witness ==
    /\ \A w \in Workers : pc[w] = "summary" /\ ~interrupted[w]
    /\ \E id \in 1..NumPending :
          /\ swept[id]
          /\ fails[id] >= 1
          /\ available_dates[id].status \in {"completed", "failed"}


\* C35: with a finite table, a fixed max_retries and workers that are not
\* killed, under fair scheduling every worker's loop eventually ends and every
\* row eventually reaches status completed or failed, whatever fetches and
\* compressions succeed or fail. Only workers write the table, so once every
\* worker has left its loop and closed the store the table stays as it is for
\* ever: every row must be completed or failed by then.
C35_Termination ==
    (\A w \in Workers : pc[w] = "done") =>
        \A id \in Ids : available_dates[id].status \in {"completed", "failed"}

====
